---- MODULE Spec2Model ----
(***************************************************************************)
(* License issuance and redemption flow of tuntihinta-app:                 *)
(*   api/stripe-webhook.ts  purchase event intake (webhook handler)        *)
(*   api/exchange.ts        token exchange endpoint                        *)
(*   api/verify.ts          manual verification endpoint                   *)
(*   src/components/AccessGate.tsx, src/config.ts   client access gate     *)
(* Every await of a handler is a step boundary: between two steps of one   *)
(* request any other request may run against the shared key-value store.   *)
(***************************************************************************)
EXTENDS Integers, Sequences, FiniteSets, TLC

\* ------------------------------------------------------------ bounds
MaxWebhookReqs == 2
MaxExchangeReqs == 2
MaxTicks == 1
MaxMounts == 2

WReqs == 1..MaxWebhookReqs
XReqs == 1..MaxExchangeReqs

Null == "null"

\* ------------------------------------------------------------ time and TTLs
\* { ex: 60 * 60 * 24 * 30 } on the license record
LicenseTtl == 60 * 60 * 24 * 30
\* { ex: 60 * 60 * 24 } on the token entry
TokenTtl == 60 * 60 * 24
\* time advances in jumps of one token lifetime or one license lifetime
TickSteps == {TokenTtl, LicenseTtl}

\* ------------------------------------------------------------ inbound events
EvCheckout == "checkout.session.completed"
EvInvoice == "invoice.paid"
EvOther == "customer.created"

\* A provider event: id, type, and the optional fields the handler reads.
\*   inline   = session.customer_details?.email
\*   alt      = session.customer_email / invoice.customer_email
\*   customer = invoice.customer / session.customer (a customer reference)
Events ==
  { [id |-> "evt_1", type |-> EvCheckout, inline |-> "a@example.com", alt |-> Null, customer |-> Null],
    [id |-> "evt_2", type |-> EvInvoice,  inline |-> Null, alt |-> "a@example.com", customer |-> Null],
    [id |-> "evt_3", type |-> EvInvoice,  inline |-> Null, alt |-> Null, customer |-> "cus_1"],
    [id |-> "evt_4", type |-> EvOther,    inline |-> "a@example.com", alt |-> Null, customer |-> Null],
    [id |-> "evt_5", type |-> EvCheckout, inline |-> Null, alt |-> Null, customer |-> "cus_1"],
    [id |-> "evt_6", type |-> EvCheckout, inline |-> "A@example.com", alt |-> Null, customer |-> Null] }

\* the events with an address in the place their kind is read from, or none
CoreEvents == {e \in Events : e.id \in {"evt_1", "evt_2", "evt_3", "evt_4"}}

NoEvent == [id |-> Null, type |-> Null, inline |-> Null, alt |-> Null, customer |-> Null]

\* What stripe.customers.retrieve can answer for a customer reference:
\* it throws, or returns a customer object (possibly deleted, possibly
\* without an email).
LookupResults ==
  { [threw |-> TRUE,  deleted |-> FALSE, email |-> Null],
    [threw |-> FALSE, deleted |-> TRUE,  email |-> Null],
    [threw |-> FALSE, deleted |-> FALSE, email |-> Null],
    [threw |-> FALSE, deleted |-> FALSE, email |-> "b@example.com"] }

\* the answers for a customer whose record at the provider has an email
CustomerRecords == {l \in LookupResults : ~l.threw /\ ~l.deleted /\ l.email # Null}

Signatures == {"none", "bad", "good"}

\* ------------------------------------------------------------ identifiers
\* uuid(): the n-th value drawn from the v4 generator (lower case, dashed).
uuid(n) == "uuid-" \o ToString(n)
\* uuid().toUpperCase()
LicenseOf(n) == "UUID-" \o ToString(n)
\* uuid().replace(/-/g, "").toUpperCase()
TokenOf(n) == "UUID" \o ToString(n)

VARIABLES
  now,        \* store clock, seconds
  ticks,      \* number of clock jumps so far
  kv,         \* the key-value store: present key -> [json, exp]
  expired,    \* keys the store has dropped because their time-to-live ran out
  uuids,      \* number of uuid() values drawn so far
  wh,         \* webhook requests (one slot per delivery)
  outbox,     \* notifications accepted by the mail provider
  lastWrite,  \* per license key: the last successful write (event, time, event before)
  ex,         \* exchange requests
  vr,         \* the most recent direct request to /api/verify
  cl,         \* the most recent request to /api/claim
  requireAccess, \* REQUIRE_ACCESS, fixed when the client is built
  ls,         \* localStorage["tuntihinta_access_key"], Null when not set
  url,        \* the token parameter of the page URL, Null when there is none
  gate,       \* the AccessGate component: its state and where its effect stands
  mounts      \* number of page loads so far

gateVars == <<requireAccess, ls, url, gate, mounts>>
vars == <<now, ticks, kv, expired, uuids, wh, outbox, lastWrite, ex, vr, cl, gateVars>>

\* ------------------------------------------------------------ key-value store
LicenseKey(id) == <<"license", id>>
TokenKey(t) == <<"token", t>>

\* kv.set(key, value, { ex })
KvSet(store, key, json, ttl) == (key :> [json |-> json, exp |-> now + ttl]) @@ store
\* the expiry of an entry written without { ex }: it never runs out
Never == -1
\* kv.set(key, value)
KvSetForever(store, key, json) == (key :> [json |-> json, exp |-> Never]) @@ store
\* what kv.get answers for a key that is not there (null)
NoData == [absent |-> TRUE]
\* kv.get(key): the stored value, or null
KvGet(store, key) == IF key \in DOMAIN store THEN store[key].json ELSE NoData
EmptyStore == [k \in {} |-> Null]
\* variant: a delete that clears the whole store
KvDelAll(store, key) == EmptyStore
\* variant: a delete that leaves the entry in place
KvDelKeeps(store, key) == store
\* kv.del(key)
KvDel(store, key) == [k \in (DOMAIN store) \ {key} |-> store[k]]
\* entries whose time-to-live has run out at time t are gone
KvExpire(store, t) ==
  [k \in {j \in DOMAIN store : store[j].exp = Never \/ store[j].exp > t} |-> store[k]]

\* ------------------------------------------------------------ webhook handler
\* getEmailFromEvent(event); lookup is what stripe.customers.retrieve answers
\* if it is called.  Result: [threw, email].
getEmailFromEvent(ev, lookup) ==
  IF ev.type = EvCheckout
    THEN [threw |-> FALSE,
          email |-> IF ev.inline # Null THEN ev.inline
                    ELSE IF ev.alt # Null THEN ev.alt ELSE Null]
  ELSE IF ev.type = EvInvoice
    THEN IF ev.alt # Null THEN [threw |-> FALSE, email |-> ev.alt]
         ELSE IF ev.customer # Null
           THEN IF lookup.threw THEN [threw |-> TRUE, email |-> Null]
                ELSE IF ~lookup.deleted THEN [threw |-> FALSE, email |-> lookup.email]
                ELSE [threw |-> FALSE, email |-> Null]
         ELSE [threw |-> FALSE, email |-> Null]
  ELSE [threw |-> FALSE, email |-> Null]

\* variant: a verification that accepts every signature
constructEventAny(sig) == TRUE
\* stripe.webhooks.constructEvent(buf, sig, secret) returns the event
\* exactly when the signature verifies; otherwise it throws.
constructEventOk(sig) == sig = "good"

\* event.type === "checkout.session.completed" || event.type === "invoice.paid"
IsRecognized(type) == type = EvCheckout \/ type = EvInvoice

WhIdle ==
  [pc |-> "idle", method |-> Null, bodyOk |-> TRUE, sig |-> Null, ev |-> NoEvent,
   email |-> Null, license |-> Null, token |-> Null, status |-> 0, ok |-> FALSE,
   wroteLic |-> FALSE, wroteTok |-> FALSE, mailed |-> FALSE, wroteSes |-> FALSE,
   triedTok |-> FALSE]

\* A response ends the request.
WhAnswer(rec, status, ok) == [rec EXCEPT !.pc = "done", !.status = status, !.ok = ok]

\* variant: a catch that reports the failure to the provider
CatchHandlerRethrows(rec) == WhAnswer(rec, 500, FALSE)
\* Lines 168-173: the catch around the event processing acknowledges too.
CatchHandler(rec) == WhAnswer(rec, 200, FALSE)

\* variant: an event without address refused as unprocessable
NoEmailSkipUnprocessable(rec) == WhAnswer(rec, 422, FALSE)
\* Lines 98-101: without an address the event is acknowledged and nothing
\* else happens.
NoEmailSkip(rec) == WhAnswer(rec, 200, TRUE)

\* variant: no filter on the event kind, the address read from the inline
\* fields whatever the kind
WebhookBeginUnfiltered(rec, method, bodyOk, sig, ev, lookup, n) ==
  LET in == [rec EXCEPT !.method = method, !.bodyOk = bodyOk, !.sig = sig]
      email == IF ev.inline # Null THEN ev.inline ELSE ev.alt
  IN  IF method # "POST" THEN WhAnswer(in, 405, FALSE)
      ELSE IF ~bodyOk THEN WhAnswer(in, 400, FALSE)
      ELSE IF sig = "none" THEN WhAnswer(in, 400, FALSE)
      ELSE IF ~constructEventOk(sig) THEN WhAnswer(in, 400, FALSE)
      ELSE IF email = Null THEN WhAnswer([in EXCEPT !.ev = ev], 200, TRUE)
      ELSE [in EXCEPT !.ev = ev, !.email = email, !.license = LicenseOf(n + 1),
                      !.token = TokenOf(n + 2), !.pc = "setLicense"]

\* Lines 50-106: method check, raw body, signature, event filter, email
\* resolution and generation of license and token.
WebhookBegin(rec, method, bodyOk, sig, ev, lookup, n) ==
  LET in == [rec EXCEPT !.method = method, !.bodyOk = bodyOk, !.sig = sig]
      res == getEmailFromEvent(ev, lookup)
  IN  IF method # "POST" THEN WhAnswer(in, 405, FALSE)
      ELSE IF ~bodyOk THEN WhAnswer(in, 400, FALSE)
      ELSE IF sig = "none" THEN WhAnswer(in, 400, FALSE)
      ELSE IF ~constructEventOk(sig) THEN WhAnswer(in, 400, FALSE)
      ELSE IF ~IsRecognized(ev.type) THEN WhAnswer([in EXCEPT !.ev = ev], 200, TRUE)
      ELSE IF res.threw THEN CatchHandler([in EXCEPT !.ev = ev])
      ELSE IF res.email = Null THEN NoEmailSkip([in EXCEPT !.ev = ev])
      ELSE [in EXCEPT !.ev = ev, !.email = res.email, !.license = LicenseOf(n + 1),
                      !.token = TokenOf(n + 2), !.pc = "setLicense"]

\* JSON.stringify({ email, active: true, createdAt: Date.now(), evt: event.id })
LicenseJson(rec) == [email |-> rec.email, active |-> TRUE, createdAt |-> now, evt |-> rec.ev.id]
\* JSON.stringify({ license, createdAt: Date.now() })
TokenJson(rec) == [license |-> rec.license, createdAt |-> now]

\* variant: the record filed under the generated license string
StoreLicenseByUuid(store, rec) == KvSet(store, LicenseKey(rec.license), LicenseJson(rec), LicenseTtl)
\* kv.set(`license:${email}`, ..., { ex: 30 d })
StoreLicense(store, rec) == KvSet(store, LicenseKey(rec.email), LicenseJson(rec), LicenseTtl)
\* variant: the token stored with the license record's lifetime
StoreTokenLongLived(store, rec) == KvSet(store, TokenKey(rec.token), TokenJson(rec), LicenseTtl)
\* kv.set(`token:${token}`, ..., { ex: 24 h })
StoreToken(store, rec) == KvSet(store, TokenKey(rec.token), TokenJson(rec), TokenTtl)

\* bookkeeping of successful license writes: who wrote last, when, and
\* which event had written before
LogWrite(log, key, evt) ==
  (key :> [evt |-> evt, at |-> now,
           prev |-> IF key \in DOMAIN log THEN log[key].evt ELSE Null]) @@ log

\* variant: a notification whose link carries no token
NotificationWithoutToken(rec) == [to |-> rec.email, license |-> rec.license, token |-> Null, evt |-> rec.ev.id]
\* the notification handed to resend.emails.send
Notification(rec) == [to |-> rec.email, license |-> rec.license, token |-> rec.token, evt |-> rec.ev.id]

WebhookReceive(r, pool, lookups) ==
  /\ wh[r].pc = "idle"
  /\ \A q \in WReqs : q < r => wh[q].pc # "idle"
  /\ \E method \in {"POST", "GET"}, bodyOk \in BOOLEAN, sig \in Signatures,
        ev \in pool, lookup \in lookups :
       \* inputs the handler never reads are left at one fixed value
       /\ method # "POST" => bodyOk
       /\ LET rec == WebhookBegin(wh[r], method, bodyOk, sig, ev, lookup, uuids)
          IN  /\ wh' = [wh EXCEPT ![r] = rec]
              /\ uuids' = IF rec.pc = "setLicense" THEN uuids + 2 ELSE uuids
  /\ UNCHANGED <<now, ticks, kv, expired, outbox, lastWrite, ex, vr, cl, gateVars>>

\* Lines 109-114; a failing write throws into the catch of line 121, which
\* skips the token write.
WebhookSetLicense(r) ==
  /\ wh[r].pc = "setLicense"
  /\ \E storeOk \in BOOLEAN :
       IF storeOk
         THEN /\ kv' = StoreLicense(kv, wh[r])
              /\ wh' = [wh EXCEPT ![r].wroteLic = TRUE, ![r].pc = "setToken"]
              /\ lastWrite' = LogWrite(lastWrite, LicenseKey(wh[r].email), wh[r].ev.id)
         ELSE /\ kv' = kv
              /\ wh' = [wh EXCEPT ![r].pc = "sendMail"]
              /\ lastWrite' = lastWrite
  /\ UNCHANGED <<now, ticks, expired, uuids, outbox, ex, vr, cl, gateVars>>

\* Lines 115-123.
WebhookSetToken(r) ==
  /\ wh[r].pc = "setToken"
  /\ \E storeOk \in BOOLEAN :
       IF storeOk
         THEN /\ kv' = StoreToken(kv, wh[r])
              /\ wh' = [wh EXCEPT ![r].wroteTok = TRUE, ![r].triedTok = TRUE,
                                  ![r].pc = "sendMail"]
         ELSE /\ kv' = kv
              /\ wh' = [wh EXCEPT ![r].triedTok = TRUE, ![r].pc = "sendMail"]
  /\ UNCHANGED <<now, ticks, expired, uuids, outbox, lastWrite, ex, vr, cl, gateVars>>

\* variant: a failed notification takes the purchase back out of the store
OnMailFailRollback(store, rec) == KvDel(KvDel(store, LicenseKey(rec.email)), TokenKey(rec.token))
\* Lines 156-158: the catch around the notification only pushes a mark.
OnMailFail(store, rec) == store

\* Lines 125-166: the notification, then the acknowledgement.
WebhookSendMail(r) ==
  /\ wh[r].pc = "sendMail"
  /\ \E mailOk \in BOOLEAN :
       /\ outbox' = IF mailOk THEN outbox \cup {Notification(wh[r])} ELSE outbox
       /\ kv' = IF mailOk THEN kv ELSE OnMailFail(kv, wh[r])
       /\ wh' = [wh EXCEPT ![r] = WhAnswer([wh[r] EXCEPT !.mailed = mailOk], 200, TRUE)]
  /\ UNCHANGED <<now, ticks, expired, uuids, lastWrite, ex, vr, cl, gateVars>>

\* ------------------------------------------------------------ session-based webhook
\* The webhook variant of the README flow: the license record is filed
\* under the generated license string, and the pair (license, token) is
\* left under the checkout session id for the thank-you page to claim.
SessionTtl == 60 * 60 * 24 * 7
SessionKey(sid) == <<"session", sid>>
\* session.id of the object the event carries
SessionOf(ev) == "cs_" \o ev.id
UnknownEmail == "unknown@unknown"

\* method check, raw body, signature, event filter, address with its
\* fallback, generation of license and token; no exception is caught
\* after the signature check.
SessionBegin(rec, method, bodyOk, sig, ev, n) ==
  LET in == [rec EXCEPT !.method = method, !.bodyOk = bodyOk, !.sig = sig]
      email == IF ev.inline # Null THEN ev.inline
               ELSE IF ev.alt # Null THEN ev.alt ELSE UnknownEmail
  IN  IF method # "POST" THEN WhAnswer(in, 405, FALSE)
      ELSE IF ~bodyOk THEN WhAnswer(in, 400, FALSE)
      ELSE IF sig = "none" THEN WhAnswer(in, 400, FALSE)
      ELSE IF ~constructEventOk(sig) THEN WhAnswer(in, 400, FALSE)
      ELSE IF ~IsRecognized(ev.type) THEN WhAnswer([in EXCEPT !.ev = ev], 200, TRUE)
      ELSE [in EXCEPT !.ev = ev, !.email = email, !.license = LicenseOf(n + 1),
                      !.token = TokenOf(n + 2), !.pc = "sLicense"]

\* JSON.stringify({ email, active: true, createdAt: Date.now(), sessionId: session.id })
SessionLicenseJson(rec) ==
  [email |-> rec.email, active |-> TRUE, createdAt |-> now, sessionId |-> SessionOf(rec.ev)]
\* JSON.stringify({ license, token, createdAt: Date.now() })
SessionJson(rec) == [license |-> rec.license, token |-> rec.token, createdAt |-> now]

\* variant: the record filed under the purchaser address
SessionStoreLicenseByEmail(store, rec) ==
  KvSetForever(store, LicenseKey(rec.email), SessionLicenseJson(rec))
\* kv.set(`license:${license}`, ...), without time-to-live
SessionStoreLicense(store, rec) ==
  KvSetForever(store, LicenseKey(rec.license), SessionLicenseJson(rec))
\* kv.set(`session:${session.id}`, ..., { ex: 7 d })
SessionStoreSession(store, rec) ==
  KvSet(store, SessionKey(SessionOf(rec.ev)), SessionJson(rec), SessionTtl)

SessionReceive(r, pool) ==
  /\ wh[r].pc = "idle"
  /\ \A q \in WReqs : q < r => wh[q].pc # "idle"
  /\ \E method \in {"POST", "GET"}, bodyOk \in BOOLEAN, sig \in Signatures, ev \in pool :
       /\ method # "POST" => bodyOk
       /\ LET rec == SessionBegin(wh[r], method, bodyOk, sig, ev, uuids)
          IN  /\ wh' = [wh EXCEPT ![r] = rec]
              /\ uuids' = IF rec.pc = "sLicense" THEN uuids + 2 ELSE uuids
  /\ UNCHANGED <<now, ticks, kv, expired, outbox, lastWrite, ex, vr, cl, gateVars>>

\* The three writes; a throwing one ends the handler without an answer of
\* its own.
SessionSetLicense(r) ==
  /\ wh[r].pc = "sLicense"
  /\ \E storeOk \in BOOLEAN :
       IF storeOk
         THEN /\ kv' = SessionStoreLicense(kv, wh[r])
              /\ wh' = [wh EXCEPT ![r].wroteLic = TRUE, ![r].pc = "sToken"]
         ELSE /\ kv' = kv
              /\ wh' = [wh EXCEPT ![r].pc = "crashed"]
  /\ UNCHANGED <<now, ticks, expired, uuids, outbox, lastWrite, ex, vr, cl, gateVars>>

SessionSetToken(r) ==
  /\ wh[r].pc = "sToken"
  /\ \E storeOk \in BOOLEAN :
       IF storeOk
         THEN /\ kv' = StoreToken(kv, wh[r])
              /\ wh' = [wh EXCEPT ![r].wroteTok = TRUE, ![r].pc = "sSession"]
         ELSE /\ kv' = kv
              /\ wh' = [wh EXCEPT ![r].pc = "crashed"]
  /\ UNCHANGED <<now, ticks, expired, uuids, outbox, lastWrite, ex, vr, cl, gateVars>>

SessionSetSession(r) ==
  /\ wh[r].pc = "sSession"
  /\ \E storeOk \in BOOLEAN :
       IF storeOk
         THEN /\ kv' = SessionStoreSession(kv, wh[r])
              /\ wh' = [wh EXCEPT ![r] = WhAnswer([wh[r] EXCEPT !.wroteSes = TRUE], 200, TRUE)]
         ELSE /\ kv' = kv
              /\ wh' = [wh EXCEPT ![r].pc = "crashed"]
  /\ UNCHANGED <<now, ticks, expired, uuids, outbox, lastWrite, ex, vr, cl, gateVars>>

\* ------------------------------------------------------------ claim handler
ClIdle ==
  [pc |-> "idle", session |-> Null, status |-> 0, ok |-> FALSE,
   token |-> Null, license |-> Null, claimed |-> {}]

ClAnswer(rec, status, ok) == [rec EXCEPT !.pc = "done", !.status = status, !.ok = ok]

\* session ids a thank-you page may carry
ClaimSessions == {SessionOf(ev) : ev \in Events} \cup {""}

\* the session_id check; a new request takes the place of a finished one
\* (claimed keeps the session ids claimed so far)
ClaimReceive ==
  /\ cl.pc \in {"idle", "done", "crashed"}
  /\ \E sid \in ClaimSessions :
       cl' = IF sid = ""
               THEN ClAnswer([ClIdle EXCEPT !.session = sid, !.claimed = cl.claimed], 400, FALSE)
               ELSE [ClIdle EXCEPT !.session = sid, !.claimed = cl.claimed, !.pc = "get"]
  /\ UNCHANGED <<now, ticks, kv, expired, uuids, wh, outbox, lastWrite, ex, vr, gateVars>>

\* kv.get, the absent case, JSON.parse; a throwing store call is not caught
ClaimGet ==
  /\ cl.pc = "get"
  /\ \E storeOk \in BOOLEAN :
       LET data == KvGet(kv, SessionKey(cl.session))
       IN  cl' = IF ~storeOk THEN [cl EXCEPT !.pc = "crashed"]
                 ELSE IF data = NoData THEN ClAnswer(cl, 200, FALSE)
                 ELSE [cl EXCEPT !.token = data.token, !.license = data.license, !.pc = "del"]
  /\ UNCHANGED <<now, ticks, kv, expired, uuids, wh, outbox, lastWrite, ex, vr, gateVars>>

\* kv.del, then the ok:true answer
ClaimDel ==
  /\ cl.pc = "del"
  /\ \E storeOk \in BOOLEAN :
       IF storeOk
         THEN /\ kv' = KvDel(kv, SessionKey(cl.session))
              /\ cl' = ClAnswer([cl EXCEPT !.claimed = @ \cup {cl.session}], 200, TRUE)
         ELSE /\ kv' = kv
              /\ cl' = [cl EXCEPT !.pc = "crashed"]
  /\ UNCHANGED <<now, ticks, expired, uuids, wh, outbox, lastWrite, ex, vr, gateVars>>

\* ------------------------------------------------------------ exchange handler
ExIdle ==
  [pc |-> "idle", method |-> Null, token |-> Null, status |-> 0,
   ok |-> FALSE, license |-> Null, afterOk |-> FALSE, afterExpiry |-> FALSE]

ExAnswer(rec, status, ok, license) ==
  [rec EXCEPT !.pc = "done", !.status = status, !.ok = ok, !.license = license]

\* tokens the webhook handler has generated so far
GeneratedTokens == {wh[r].token : r \in {q \in WReqs : wh[q].token # Null}}

\* some exchange of token t has already answered ok:true
Redeemed(t) == \E y \in XReqs : ex[y].pc = "done" /\ ex[y].ok /\ ex[y].token = t

\* Lines 5-10: method and parameter checks.
ExchangeBegin(rec, method, token) ==
  LET in == [rec EXCEPT !.method = method, !.token = token]
  IN  IF method # "GET" THEN ExAnswer(in, 405, FALSE, Null)
      ELSE IF token = "" THEN ExAnswer(in, 400, FALSE, Null)
      ELSE [in EXCEPT !.pc = "get"]

ExchangeReceive(x) ==
  /\ ex[x].pc = "idle"
  /\ \A y \in XReqs : y < x => ex[y].pc # "idle"
  /\ \E method \in {"GET", "POST"}, token \in GeneratedTokens \cup {"", "BOGUS"} :
       /\ method # "GET" => token = ""
       /\ ex' = [ex EXCEPT ![x] = [ExchangeBegin(ex[x], method, token) EXCEPT
                                  !.afterOk = Redeemed(token),
                                  !.afterExpiry = TokenKey(token) \in expired]]
  /\ UNCHANGED <<now, ticks, kv, expired, uuids, wh, outbox, lastWrite, vr, cl, gateVars>>

\* Lines 12-14: kv.get, the absent case, JSON.parse.  A throwing store call
\* is not caught: the handler ends without writing a response.
ExchangeAfterGet(rec, data) ==
  IF data = NoData THEN ExAnswer(rec, 200, FALSE, Null)
  ELSE [rec EXCEPT !.license = data.license, !.pc = "del"]

ExchangeGet(x) ==
  /\ ex[x].pc = "get"
  /\ \E storeOk \in BOOLEAN :
       ex' = [ex EXCEPT ![x] = IF storeOk
                                 THEN ExchangeAfterGet(ex[x], KvGet(kv, TokenKey(ex[x].token)))
                                 ELSE [ex[x] EXCEPT !.pc = "crashed"]]
  /\ UNCHANGED <<now, ticks, kv, expired, uuids, wh, outbox, lastWrite, vr, cl, gateVars>>

\* Lines 15-16: kv.del, then the ok:true answer.
ExchangeDel(x) ==
  /\ ex[x].pc = "del"
  /\ \E storeOk \in BOOLEAN :
       IF storeOk
         THEN /\ kv' = KvDel(kv, TokenKey(ex[x].token))
              /\ ex' = [ex EXCEPT ![x] = ExAnswer(ex[x], 200, TRUE, ex[x].license)]
         ELSE /\ kv' = kv
              /\ ex' = [ex EXCEPT ![x].pc = "crashed"]
  /\ UNCHANGED <<now, ticks, expired, uuids, wh, outbox, lastWrite, vr, cl, gateVars>>

\* ------------------------------------------------------------ verify handler
\* variant: any record under the key is accepted, whatever its active field
VerifyAnswerAnyRecord(store, method, key, storeOk) ==
  LET data == KvGet(store, LicenseKey(key))
  IN  IF method # "POST" THEN [crashed |-> FALSE, status |-> 405, ok |-> FALSE]
      ELSE IF key = "" THEN [crashed |-> FALSE, status |-> 200, ok |-> FALSE]
      ELSE IF ~storeOk THEN [crashed |-> TRUE, status |-> 0, ok |-> FALSE]
      ELSE IF data = NoData THEN [crashed |-> FALSE, status |-> 200, ok |-> FALSE]
      ELSE [crashed |-> FALSE, status |-> 200, ok |-> TRUE]

\* api/verify.ts: the answer to a request with the given method and key
\* against the given store; a throwing store call is not caught.
VerifyAnswer(store, method, key, storeOk) ==
  LET data == KvGet(store, LicenseKey(key))
  IN  IF method # "POST" THEN [crashed |-> FALSE, status |-> 405, ok |-> FALSE]
      ELSE IF key = "" THEN [crashed |-> FALSE, status |-> 200, ok |-> FALSE]
      ELSE IF ~storeOk THEN [crashed |-> TRUE, status |-> 0, ok |-> FALSE]
      ELSE IF data = NoData THEN [crashed |-> FALSE, status |-> 200, ok |-> FALSE]
      ELSE IF data.active # TRUE THEN [crashed |-> FALSE, status |-> 200, ok |-> FALSE]
      ELSE [crashed |-> FALSE, status |-> 200, ok |-> TRUE]

VrIdle == [pc |-> "idle", method |-> Null, key |-> Null, status |-> 0, ok |-> FALSE]

\* keys a caller of /api/verify may send: a purchaser address, a generated
\* license string, an address nobody bought with, something else, nothing
VerifyKeys == {"a@example.com", "b@example.com", LicenseOf(1), "BOGUS", ""}

\* One request to /api/verify, answered or ended by the uncaught exception.
VerifyRequest ==
  /\ \E method \in {"POST", "GET"}, key \in VerifyKeys, storeOk \in BOOLEAN :
       /\ method # "POST" => (key = "" /\ storeOk)
       /\ key = "" => storeOk
       /\ LET resp == VerifyAnswer(kv, method, key, storeOk)
          IN  vr' = [pc |-> IF resp.crashed THEN "crashed" ELSE "done",
                     method |-> method, key |-> key,
                     status |-> resp.status, ok |-> resp.ok]
  /\ UNCHANGED <<now, ticks, kv, expired, uuids, wh, outbox, lastWrite, ex, cl, gateVars>>

\* ------------------------------------------------------------ client access gate
\* variant: any stored value counts, the empty string included
hasAccessAnyValue(req, stored) == IF ~req THEN TRUE ELSE stored # Null
\* variant: access decided from the stored key alone
hasAccessStoredOnly(req, stored) == stored # Null /\ stored # ""
\* src/config.ts
hasAccess(req, stored) == IF ~req THEN TRUE ELSE stored # Null /\ stored # ""
\* localStorage.setItem(LS_KEY, key)
grantAccess(key) == key
\* localStorage.getItem(LS_KEY)
currentAccessKey(stored) == stored

\* variant: a request that fails on the way counts as accepted
verifyRemoteLenient(store, key, netOk, storeOk) ==
  LET resp == VerifyAnswer(store, "POST", key, storeOk)
  IN  ~netOk \/ resp.crashed \/ resp.ok = TRUE

\* verifyRemote(key): true exactly when the request comes back with a JSON
\* body whose ok is true; a network error or a non-JSON body gives false.
verifyRemote(store, key, netOk, storeOk) ==
  LET resp == VerifyAnswer(store, "POST", key, storeOk)
  IN  netOk /\ ~resp.crashed /\ resp.ok = TRUE

\* the two messages of setError (written here without diacritics)
ErrToken == "Token ei kelpaa tai on jo kaytetty."
ErrLicense == "Lisenssi ei ole voimassa. Syota uusi avain."

\* The component state (loading, error, key), where its effect stands (pc,
\* slot) and what has happened since the page was loaded: an ok answer
\* seen, the exchange and the stored-credential verification results, the
\* history entries added, the outcome of the last submit, the credential
\* found at load, and the key whose acceptance caused the load.
GateClosed ==
  [pc |-> "closed", loading |-> TRUE, error |-> "", key |-> "", slot |-> 0,
   okSeen |-> FALSE, exRes |-> "none", savedRes |-> "none", histAdded |-> 0,
   lastSubmit |-> "none", savedAtLoad |-> Null, accepted |-> Null]

\* useState initial values of a fresh mount
GateMounted == [GateClosed EXCEPT !.pc = "mounted"]

\* a fresh mount in a page that was loaded with the given credential in
\* localStorage, after the given key was accepted (Null: a plain load)
Loaded(stored, accepted) ==
  [GateMounted EXCEPT !.savedAtLoad = stored, !.accepted = accepted]

\* variant: the URL without token put on top of the session history
pushState(entries) == entries + 1
\* history.replaceState({}, "", url): the current history entry is
\* rewritten, none is added
replaceState(entries) == entries

\* variant: a refused token leaves no message
OnExchangeRefusedSilent(comp) == [comp EXCEPT !.exRes = "refused"]
\* Lines 31-33: setError for a token the exchange did not accept
OnExchangeRefused(comp) == [comp EXCEPT !.error = ErrToken, !.exRes = "refused"]

\* variant: a render that does not wait for the effect to finish
ViewNoSpinner(req, comp, stored) ==
  IF comp.pc = "closed" THEN "none"
  ELSE IF ~req THEN "content"
  ELSE IF hasAccess(req, stored) THEN "content"
  ELSE IF comp.loading THEN "loading"
  ELSE "locked"

\* What the component renders (lines 46-49 and the form below them).
View(req, comp, stored) ==
  IF comp.pc = "closed" THEN "none"
  ELSE IF ~req THEN "content"
  ELSE IF comp.loading THEN "loading"
  ELSE IF hasAccess(req, stored) THEN "content"
  ELSE "locked"

\* Lines 35-42: the stored credential is looked up; with one the effect
\* goes on to verify it, without one loading ends.
AfterTokenStep(comp, stored) ==
  IF currentAccessKey(stored) # Null /\ currentAccessKey(stored) # ""
    THEN [comp EXCEPT !.pc = "verify"]
    ELSE [comp EXCEPT !.pc = "ready", !.loading = FALSE]

\* the first idle exchange request slot, 0 when all are taken
FreeSlot == IF \E x \in XReqs : ex[x].pc = "idle"
              THEN CHOOSE x \in XReqs : ex[x].pc = "idle" /\ \A y \in XReqs : y < x => ex[y].pc # "idle"
              ELSE 0

\* Lines 18-25: a mount with the page URL carrying token t (or none).
\* With a token the effect sends the exchange request; netOk says whether
\* the request reaches the server.
Mount(t, netOk) ==
  /\ mounts < MaxMounts
  /\ mounts' = mounts + 1
  /\ url' = t
  /\ ls' = ls
  /\ IF ~requireAccess
       THEN /\ gate' = [Loaded(ls, Null) EXCEPT !.pc = "ready", !.loading = FALSE]
            /\ ex' = ex
       ELSE IF t # Null
         THEN IF netOk
                THEN /\ FreeSlot # 0
                     /\ gate' = [Loaded(ls, Null) EXCEPT !.pc = "awaitExchange", !.slot = FreeSlot]
                     /\ ex' = [ex EXCEPT ![FreeSlot] =
                                 [ExchangeBegin(ex[FreeSlot], "GET", t) EXCEPT
                                    !.afterOk = Redeemed(t),
                                    !.afterExpiry = TokenKey(t) \in expired]]
                ELSE /\ gate' = [Loaded(ls, Null) EXCEPT !.pc = "stuck"]
                     /\ ex' = ex
         ELSE /\ gate' = AfterTokenStep(Loaded(ls, Null), ls)
              /\ ex' = ex

\* tokens and keys the purchaser has been mailed
MailedTokens == {m.token : m \in outbox}
MailedKeys == {m.license : m \in outbox} \cup {m.to : m \in outbox}

\* The user opens the application, from a bookmark or from a mailed link.
GateOpen ==
  /\ \E t \in MailedTokens \cup {Null, "BOGUS"}, netOk \in BOOLEAN : Mount(t, netOk)
  /\ UNCHANGED <<now, ticks, kv, expired, uuids, wh, outbox, lastWrite, vr, cl, requireAccess>>

\* The user reloads the page: the URL stays, the component state is new.
GateReload ==
  /\ gate.pc # "closed"
  /\ \E netOk \in BOOLEAN : Mount(url, netOk)
  /\ UNCHANGED <<now, ticks, kv, expired, uuids, wh, outbox, lastWrite, vr, cl, requireAccess>>

\* Lines 25-34: the exchange response arrives.  A lost response or a body
\* that is not JSON makes the effect's promise reject: nothing after it runs.
GateExchangeDone ==
  /\ gate.pc = "awaitExchange"
  /\ ex[gate.slot].pc \in {"done", "crashed"}
  /\ \E netOk \in BOOLEAN :
       LET r == ex[gate.slot]
       IN  IF ~netOk \/ r.pc = "crashed"
             THEN /\ gate' = [gate EXCEPT !.pc = "stuck"]
                  /\ ls' = ls /\ url' = url
             ELSE IF r.ok /\ r.license # Null
               THEN /\ ls' = grantAccess(r.license)
                    /\ url' = Null
                    /\ gate' = AfterTokenStep([gate EXCEPT !.okSeen = TRUE, !.exRes = "ok",
                                                            !.histAdded = replaceState(@)],
                                              grantAccess(r.license))
               ELSE /\ ls' = ls /\ url' = url
                    /\ gate' = AfterTokenStep(OnExchangeRefused(gate), ls)
  /\ UNCHANGED <<now, ticks, kv, expired, uuids, wh, outbox, lastWrite, vr, cl, ex, requireAccess, mounts>>

\* Lines 36-40: the stored credential is verified; whatever the answer,
\* loading ends.
GateVerifySaved ==
  /\ gate.pc = "verify"
  /\ \E netOk \in BOOLEAN, storeOk \in BOOLEAN :
       LET ok == verifyRemote(kv, currentAccessKey(ls), netOk, storeOk)
       IN  gate' = [gate EXCEPT !.pc = "ready", !.loading = FALSE,
                                !.error = IF ok THEN @ ELSE ErrLicense,
                                !.savedRes = IF ok THEN "ok" ELSE "refused",
                                !.okSeen = @ \/ ok]
  /\ UNCHANGED <<now, ticks, kv, expired, uuids, wh, outbox, lastWrite, vr, cl, ex, requireAccess, ls, url, mounts>>

\* Lines 61-75: the user types a key and presses the button.  An accepted
\* key is stored and the page reloads; a refused one raises an alert.
GateSubmit ==
  /\ gate.pc = "ready"
  /\ View(requireAccess, gate, ls) = "locked"
  /\ \E key \in MailedKeys \cup {"", "BOGUS"}, netOk \in BOOLEAN, storeOk \in BOOLEAN,
        reloadNetOk \in BOOLEAN :
       IF key # "" /\ verifyRemote(kv, key, netOk, storeOk)
         THEN /\ mounts < MaxMounts
              /\ mounts' = mounts + 1
              /\ ls' = grantAccess(key)
              /\ url' = url
              /\ IF url # Null
                   THEN IF reloadNetOk
                          THEN /\ FreeSlot # 0
                               /\ gate' = [Loaded(grantAccess(key), key) EXCEPT
                                             !.pc = "awaitExchange", !.slot = FreeSlot]
                               /\ ex' = [ex EXCEPT ![FreeSlot] =
                                           [ExchangeBegin(ex[FreeSlot], "GET", url) EXCEPT
                                              !.afterOk = Redeemed(url),
                                              !.afterExpiry = TokenKey(url) \in expired]]
                          ELSE /\ gate' = [Loaded(grantAccess(key), key) EXCEPT !.pc = "stuck"]
                               /\ ex' = ex
                   ELSE /\ gate' = AfterTokenStep(Loaded(grantAccess(key), key), grantAccess(key))
                        /\ ex' = ex
         ELSE /\ gate' = [gate EXCEPT !.key = key,
                                      !.lastSubmit = IF key = "" THEN @ ELSE "refused"]
              /\ UNCHANGED <<ls, url, mounts, ex>>
  /\ UNCHANGED <<now, ticks, kv, expired, uuids, wh, outbox, lastWrite, vr, cl, requireAccess>>

\* ------------------------------------------------------------ time
\* The store drops every entry whose time-to-live has run out.
Tick(d) ==
  /\ ticks < MaxTicks
  /\ now' = now + d
  /\ kv' = KvExpire(kv, now + d)
  /\ expired' = expired \cup (DOMAIN kv \ DOMAIN KvExpire(kv, now + d))
  /\ ticks' = ticks + 1
  /\ UNCHANGED <<uuids, wh, outbox, lastWrite, ex, vr, cl, gateVars>>

\* ------------------------------------------------------------ specification
Init ==
  /\ now = 0
  /\ ticks = 0
  /\ kv = EmptyStore
  /\ expired = {}
  /\ uuids = 0
  /\ wh = [r \in WReqs |-> WhIdle]
  /\ outbox = {}
  /\ lastWrite = EmptyStore
  /\ ex = [x \in XReqs |-> ExIdle]
  /\ vr = VrIdle
  /\ cl = ClIdle
  /\ requireAccess = TRUE
  /\ ls = Null
  /\ url = Null
  /\ gate = GateClosed
  /\ mounts = 0

Next ==
  \/ \E r \in WReqs : WebhookReceive(r, Events, LookupResults)
  \/ \E r \in WReqs : WebhookSetLicense(r)
  \/ \E r \in WReqs : WebhookSetToken(r)
  \/ \E r \in WReqs : WebhookSendMail(r)
  \/ \E x \in XReqs : ExchangeReceive(x)
  \/ \E x \in XReqs : ExchangeGet(x)
  \/ \E x \in XReqs : ExchangeDel(x)
  \/ VerifyRequest
  \/ \E d \in TickSteps : Tick(d)
  \/ GateOpen
  \/ GateReload
  \/ GateExchangeDone
  \/ GateVerifySaved
  \/ GateSubmit

Spec == Init /\ [][Next]_vars

\* The purchase event intake alone: concurrent deliveries against the store.
NextWebhook ==
  \/ \E r \in WReqs : WebhookReceive(r, CoreEvents, LookupResults)
  \/ \E r \in WReqs : WebhookSetLicense(r)
  \/ \E r \in WReqs : WebhookSetToken(r)
  \/ \E r \in WReqs : WebhookSendMail(r)
  \/ Tick(TokenTtl)

SpecWebhook == Init /\ [][NextWebhook]_vars

\* One purchase, then concurrent exchange requests.
NextExchange ==
  \/ WebhookReceive(1, CoreEvents, LookupResults)
  \/ WebhookSetLicense(1)
  \/ WebhookSetToken(1)
  \/ WebhookSendMail(1)
  \/ \E x \in XReqs : ExchangeReceive(x)
  \/ \E x \in XReqs : ExchangeGet(x)
  \/ \E x \in XReqs : ExchangeDel(x)
  \/ \E d \in TickSteps : Tick(d)

SpecExchange == Init /\ [][NextExchange]_vars

\* One purchase and one browser; the client may be built with the gate
\* switched on or off.
InitGate ==
  /\ now = 0
  /\ ticks = 0
  /\ kv = EmptyStore
  /\ expired = {}
  /\ uuids = 0
  /\ wh = [r \in WReqs |-> WhIdle]
  /\ outbox = {}
  /\ lastWrite = EmptyStore
  /\ ex = [x \in XReqs |-> ExIdle]
  /\ vr = VrIdle
  /\ cl = ClIdle
  /\ requireAccess \in BOOLEAN
  /\ ls = Null
  /\ url = Null
  /\ gate = GateClosed
  /\ mounts = 0

NextGate ==
  \/ WebhookReceive(1, CoreEvents, LookupResults)
  \/ WebhookSetLicense(1)
  \/ WebhookSetToken(1)
  \/ WebhookSendMail(1)
  \/ \E x \in XReqs : ExchangeGet(x)
  \/ \E x \in XReqs : ExchangeDel(x)
  \/ \E d \in TickSteps : Tick(d)
  \/ GateOpen
  \/ GateReload
  \/ GateExchangeDone
  \/ GateVerifySaved
  \/ GateSubmit

SpecGate == InitGate /\ [][NextGate]_vars

\* Purchases of every shape (address inline, in the alternate field, only
\* a customer reference, differing in letter case), the provider holding a
\* record with an email for every customer and answering every lookup.
NextPurchases ==
  \/ \E r \in WReqs : WebhookReceive(r, Events, CustomerRecords)
  \/ \E r \in WReqs : WebhookSetLicense(r)
  \/ \E r \in WReqs : WebhookSetToken(r)
  \/ \E r \in WReqs : WebhookSendMail(r)

SpecPurchases == Init /\ [][NextPurchases]_vars

\* One purchase, then the two endpoints a client can call, in any order.
NextEndpoints ==
  \/ WebhookReceive(1, CoreEvents, LookupResults)
  \/ WebhookSetLicense(1)
  \/ WebhookSetToken(1)
  \/ WebhookSendMail(1)
  \/ \E x \in XReqs : ExchangeReceive(x)
  \/ \E x \in XReqs : ExchangeGet(x)
  \/ \E x \in XReqs : ExchangeDel(x)
  \/ VerifyRequest

SpecEndpoints == Init /\ [][NextEndpoints]_vars

\* The README flow: one checkout handled by the session-based webhook, the
\* thank-you page claiming it, the gate exchanging the token.
NextSession ==
  \/ SessionReceive(1, {e \in Events : e.type = EvCheckout})
  \/ SessionSetLicense(1)
  \/ SessionSetToken(1)
  \/ SessionSetSession(1)
  \/ ClaimReceive
  \/ ClaimGet
  \/ ClaimDel
  \/ ExchangeReceive(1)
  \/ ExchangeGet(1)
  \/ ExchangeDel(1)
  \/ \E d \in {TokenTtl, SessionTtl} : Tick(d)

SpecSession == Init /\ [][NextSession]_vars

\* The verify endpoint against every store content it can meet: under each
\* key no record, a record as the webhook writes it, or a record whose
\* active field has been switched off.
LicenseStates == {"absent", "active", "inactive"}
StoreOf(f) ==
  [k \in {LicenseKey(id) : id \in {i \in DOMAIN f : f[i] # "absent"}} |->
     [json |-> [email |-> k[2], active |-> (f[k[2]] = "active"), createdAt |-> 0, evt |-> "evt_1"],
      exp |-> LicenseTtl]]

InitVerify ==
  /\ now = 0
  /\ ticks = 0
  /\ \E f \in [VerifyKeys \ {"BOGUS", ""} -> LicenseStates] : kv = StoreOf(f)
  /\ expired = {}
  /\ uuids = 0
  /\ wh = [r \in WReqs |-> WhIdle]
  /\ outbox = {}
  /\ lastWrite = EmptyStore
  /\ ex = [x \in XReqs |-> ExIdle]
  /\ vr = VrIdle
  /\ cl = ClIdle
  /\ requireAccess = TRUE
  /\ ls = Null
  /\ url = Null
  /\ gate = GateClosed
  /\ mounts = 0

NextVerify == VerifyRequest

SpecVerify == InitVerify /\ [][NextVerify]_vars

\* ============================================================ claims
LicenseKeys(store) == {k \in DOMAIN store : k[1] = "license"}
TokenKeys(store) == {k \in DOMAIN store : k[1] = "token"}
\* the request has passed signature verification
Verified(r) == wh[r].method = "POST" /\ wh[r].bodyOk /\ wh[r].sig = "good"
\* the steps of one webhook request after its arrival
WebhookStep(r) == WebhookSetLicense(r) \/ WebhookSetToken(r) \/ WebhookSendMail(r)

\* C1: of two exchange requests for the same token, at most one answers
\* ok:true (the other answers ok:false), in every interleaving of their
\* get and del steps.
C1_SingleRedeem ==
  \A x, y \in XReqs :
    (x # y /\ ex[x].pc = "done" /\ ex[y].pc = "done"
       /\ ex[x].token = ex[y].token /\ ex[x].ok) => ~ex[y].ok

\* C2: once an exchange of token t has answered ok:true, the entry token:t
\* is gone from the store and every exchange request for t that arrives
\* afterwards never reads a license and, when answered, answers 200
\* ok:false without a license.
C2_NoRedeemAfterSuccess ==
  /\ \A x \in XReqs : Redeemed(ex[x].token) => TokenKey(ex[x].token) \notin DOMAIN kv
  /\ \A x \in XReqs :
       ex[x].afterOk =>
         /\ ex[x].pc \in {"get", "done", "crashed"}
         /\ ~ex[x].ok /\ ex[x].license = Null
         /\ ex[x].pc = "done" => ex[x].status = 200

C2_Witness ==
  \E x, y \in XReqs :
    /\ x # y /\ ex[y].pc = "done" /\ ex[y].ok /\ ex[y].license # Null
    /\ ex[x].token = ex[y].token /\ ex[x].afterOk
    /\ ex[x].pc = "done" /\ ex[x].status = 200 /\ ~ex[x].ok

\* C3: the deliveries of one event id together write the license record
\* at most once, store at most one token and dispatch at most one
\* notification.
C3_DuplicateDeliveryIsNoOp ==
  \A r, q \in WReqs :
    (r # q /\ wh[r].ev.id # Null /\ wh[r].ev.id = wh[q].ev.id) =>
      /\ ~(wh[r].wroteLic /\ wh[q].wroteLic)
      /\ ~(wh[r].wroteTok /\ wh[q].wroteTok)
      /\ ~(wh[r].mailed /\ wh[q].mailed)

\* C4: a webhook request whose signature is missing or does not verify is
\* answered at once with a non-200 status and writes no license record,
\* no token and sends no notification.
C4_BadSignatureRejected ==
  \A r \in WReqs :
    (wh[r].pc # "idle" /\ wh[r].sig \in {"none", "bad"}) =>
      /\ wh[r].pc = "done" /\ wh[r].status \in {400, 405}
      /\ ~wh[r].wroteLic /\ ~wh[r].wroteTok /\ ~wh[r].mailed
      /\ wh[r].license = Null /\ wh[r].token = Null
      /\ \A m \in outbox : m.token # wh[r].token

C4_Witness ==
  \E r, q \in WReqs :
    /\ wh[r].method = "POST" /\ wh[r].bodyOk /\ wh[r].sig = "bad"
    /\ wh[r].pc = "done" /\ wh[r].status = 400
    /\ wh[q].method = "POST" /\ wh[q].bodyOk /\ wh[q].sig = "none"
    /\ wh[q].pc = "done" /\ wh[q].status = 400

\* C5: a webhook request whose signature verified never ends without an
\* answer, can always take its next step, and its answer is HTTP 200,
\* also after a failing customer lookup, store write or notification.
C5_VerifiedAlwaysAcknowledged ==
  \A r \in WReqs :
    Verified(r) =>
      /\ wh[r].pc \in {"setLicense", "setToken", "sendMail", "done"}
      /\ wh[r].pc = "done" => wh[r].status = 200
      /\ wh[r].pc # "done" => ENABLED WebhookStep(r)

C5_Witness ==
  \E r, q \in WReqs :
    /\ Verified(r) /\ wh[r].pc = "done" /\ wh[r].status = 200
    /\ wh[r].email # Null /\ ~wh[r].wroteLic /\ ~wh[r].mailed
    /\ Verified(q) /\ wh[q].pc = "done" /\ wh[q].status = 200
    /\ wh[q].ev.customer # Null /\ ~wh[q].ok

\* C6: with the gate enabled, the protected content is shown only in a
\* session in which a verification or an exchange answered ok.
C6_NoContentWithoutOk ==
  (requireAccess /\ View(requireAccess, gate, ls) = "content") => gate.okSeen

\* C7: the license identifier inside every stored token is the key of a
\* license record that is active, so that /api/verify accepts it.
C7_TokenNamesActiveLicense ==
  \A k \in TokenKeys(kv) : VerifyAnswer(kv, "POST", kv[k].json.license, TRUE).ok

\* C8: every token entry lives 24 hours from its creation, and an exchange
\* request that arrives for a token the store has expired never reads a
\* license and, when answered, answers 200 ok:false.
C8_ExpiredTokenAbsent ==
  /\ \A k \in TokenKeys(kv) : kv[k].exp = kv[k].json.createdAt + 24 * 60 * 60
  /\ \A k \in TokenKeys(kv) : kv[k].exp > now
  /\ \A x \in XReqs :
       ex[x].afterExpiry =>
         /\ ex[x].pc \in {"get", "done", "crashed"}
         /\ ~ex[x].ok /\ ex[x].license = Null
         /\ ex[x].pc = "done" => ex[x].status = 200

C8_Witness ==
  \E x \in XReqs :
    /\ ex[x].token \in GeneratedTokens /\ ex[x].afterExpiry
    /\ ~Redeemed(ex[x].token)
    /\ ex[x].pc = "done" /\ ex[x].status = 200 /\ ~ex[x].ok

\* C9: an identifier whose license record was written (and has not run
\* out since) has exactly one license record: active, carrying the event
\* id and time of the last write, and living 30 days from that write.
C9_OneRecordPerEmail ==
  \A k \in DOMAIN lastWrite :
    now < lastWrite[k].at + 30 * 24 * 60 * 60 =>
      /\ k \in DOMAIN kv
      /\ kv[k].json.active = TRUE
      /\ kv[k].json.evt = lastWrite[k].evt
      /\ kv[k].json.createdAt = lastWrite[k].at
      /\ kv[k].exp = lastWrite[k].at + 30 * 24 * 60 * 60
      /\ Cardinality({j \in LicenseKeys(kv) : kv[j].json.email = kv[k].json.email}) = 1

C9_Witness ==
  \E k \in DOMAIN lastWrite :
    /\ lastWrite[k].prev # Null /\ lastWrite[k].prev # lastWrite[k].evt
    /\ lastWrite[k].at > 0
    /\ k \in DOMAIN kv /\ kv[k].json.evt = lastWrite[k].evt
    /\ \A r \in WReqs : wh[r].pc = "done" /\ wh[r].wroteLic

\* C10: handling a verified event of any other kind changes no store
\* entry, sends no notification, and answers HTTP 200.
C10_OtherKindsIgnored ==
  [][\A r \in WReqs :
       (wh'[r] # wh[r] /\ Verified(r)' /\ ~(wh'[r].ev.type \in {EvCheckout, EvInvoice})) =>
         /\ kv' = kv /\ outbox' = outbox /\ uuids' = uuids
         /\ wh'[r].pc = "done" /\ wh'[r].status = 200]_vars

C10_Witness ==
  \E r \in WReqs :
    /\ Verified(r) /\ wh[r].ev.type = EvOther
    /\ wh[r].pc = "done" /\ wh[r].status = 200
    /\ DOMAIN kv # {}

\* C11: a verified event of a recognized kind for which no purchaser
\* address is resolved is answered HTTP 200, and the request writes no
\* license record, writes no token and dispatches no notification.
C11_NoEmailNoWrites ==
  \A r \in WReqs :
    (Verified(r) /\ IsRecognized(wh[r].ev.type) /\ wh[r].email = Null) =>
      /\ wh[r].pc = "done" /\ wh[r].status = 200
      /\ ~wh[r].wroteLic /\ ~wh[r].wroteTok /\ ~wh[r].mailed
      /\ wh[r].license = Null /\ wh[r].token = Null
      /\ LicenseKey(Null) \notin DOMAIN kv
      /\ \A m \in outbox : m.to # Null

C11_Witness ==
  \E r \in WReqs :
    /\ Verified(r) /\ wh[r].ev.type = EvInvoice /\ wh[r].ev.customer # Null
    /\ wh[r].email = Null /\ wh[r].pc = "done" /\ wh[r].status = 200 /\ wh[r].ok
    /\ kv = EmptyStore /\ outbox = {}

\* C12: when the notification fails after the license record and the
\* token were written, that step leaves the store as it was (the record,
\* active, and the token entry included), sends nothing, and answers the
\* event with HTTP 200.
C12_MailFailureKeepsRecords ==
  [][\A r \in WReqs :
       (wh[r].pc = "sendMail" /\ wh[r].wroteLic /\ wh[r].wroteTok
          /\ wh'[r].pc = "done" /\ ~wh'[r].mailed) =>
         /\ kv' = kv /\ outbox' = outbox
         /\ wh'[r].status = 200]_vars

C12_Witness ==
  \E r \in WReqs :
    /\ wh[r].pc = "done" /\ wh[r].wroteLic /\ wh[r].wroteTok /\ ~wh[r].mailed
    /\ wh[r].status = 200
    /\ LicenseKey(wh[r].email) \in DOMAIN kv
    /\ kv[LicenseKey(wh[r].email)].json.active = TRUE
    /\ kv[LicenseKey(wh[r].email)].json.evt = wh[r].ev.id
    /\ TokenKey(wh[r].token) \in DOMAIN kv
    /\ kv[TokenKey(wh[r].token)].json.license = wh[r].license

\* C13: a POST to /api/verify with key k that is answered says ok:true
\* exactly when the store holds a record under license:k whose active
\* field is true; with no record, or with a record whose active field is
\* anything else, it says ok:false with status 200.
C13_VerifyIffActive ==
  (vr.pc = "done" /\ vr.method = "POST") =>
    /\ vr.ok <=> (LicenseKey(vr.key) \in DOMAIN kv /\ kv[LicenseKey(vr.key)].json.active = TRUE)
    /\ vr.status = 200

C13_Witness ==
  /\ vr.pc = "done" /\ vr.method = "POST" /\ vr.status = 200 /\ ~vr.ok
  /\ LicenseKey(vr.key) \in DOMAIN kv
  /\ kv[LicenseKey(vr.key)].json.active = FALSE
  /\ \E k \in DOMAIN kv : kv[k].json.active = TRUE

\* C14: no request to the exchange endpoint or to the verify endpoint ends
\* in an unhandled error: when the store read fails the request is still
\* answered, with ok:false.
C14_ReadFailureAnswered ==
  /\ \A x \in XReqs : ex[x].pc # "crashed"
  /\ vr.pc # "crashed"

\* C15: in a page load whose token the exchange answered ok:true with a
\* license, that license is the stored credential, the token parameter is
\* gone from the URL, no history entry was added (replace, not push), and
\* the load ends showing the protected content: the effect either still
\* has its verification step to take, or is done with the content shown.
C15_TokenExchangeUnlocks ==
  gate.exRes = "ok" =>
    /\ ex[gate.slot].ok /\ ex[gate.slot].license # Null
    /\ ls = ex[gate.slot].license
    /\ url = Null
    /\ gate.histAdded = 0
    /\ gate.pc \in {"verify", "ready"}
    /\ gate.pc = "verify" => ENABLED GateVerifySaved
    /\ gate.pc = "ready" => View(requireAccess, gate, ls) = "content"

C15_Witness ==
  /\ gate.exRes = "ok" /\ gate.pc = "ready" /\ gate.savedAtLoad = Null
  /\ ls \in {m.license : m \in outbox} /\ url = Null
  /\ View(requireAccess, gate, ls) = "content"

\* C16: in a page load whose token the exchange answered ok:false, with
\* no credential in local storage at load, the invalid-token message is
\* set, no credential is stored, and the gate is Locked showing the
\* manual-entry form.
C16_RefusedTokenLocks ==
  (gate.exRes = "refused" /\ gate.savedAtLoad = Null) =>
    /\ gate.error = ErrToken
    /\ ls = Null
    /\ gate.pc = "ready" /\ ~gate.loading
    /\ View(requireAccess, gate, ls) = "locked"

C16_Witness ==
  /\ gate.exRes = "refused" /\ gate.savedAtLoad = Null
  /\ url \in MailedTokens /\ ex[gate.slot].status = 200
  /\ gate.error = ErrToken /\ View(requireAccess, gate, ls) = "locked"

\* C17: in a page load without token that found a stored credential whose
\* verification came back not-ok, the credential is removed from local
\* storage and the license-no-longer-valid message is set.
C17_FailedVerificationClears ==
  (gate.savedRes = "refused" /\ gate.exRes = "none") =>
    /\ ls = Null
    /\ gate.error = ErrLicense

\* C18: in the Locked state a submitted key whose verification comes back
\* not-ok stores nothing and leaves the gate Locked; a key whose
\* verification comes back ok is stored as the credential and the gate
\* becomes Unlocked: the page load that follows does not hang, and ends
\* with the protected content shown.
C18_SubmitOutcome ==
  /\ gate.lastSubmit = "refused" =>
       /\ ls = gate.savedAtLoad /\ ~hasAccess(requireAccess, ls)
       /\ View(requireAccess, gate, ls) = "locked"
  /\ gate.accepted # Null =>
       /\ ls = gate.accepted
       /\ gate.pc # "stuck"
       /\ gate.pc = "ready" => View(requireAccess, gate, ls) = "content"

\* C19: while the protected content is shown, the gate has no step left
\* to take in that page load: no exchange answer is awaited, no
\* verification of the stored credential is pending and no key can be
\* submitted, so nothing returns the gate to Locked or Loading and no
\* further verification request is made.
C19_UnlockedIsTerminal ==
  View(requireAccess, gate, ls) = "content" =>
    /\ gate.pc = "ready"
    /\ ~ENABLED GateExchangeDone
    /\ ~ENABLED GateVerifySaved
    /\ ~ENABLED GateSubmit

C19_Witness ==
  /\ requireAccess /\ View(requireAccess, gate, ls) = "content"
  /\ gate.savedRes = "ok" /\ gate.pc = "ready"

\* C20: with REQUIRE_ACCESS false every page load shows the content,
\* whatever local storage and the URL hold; hasAccess() is true; and the
\* load sends no exchange request and no verification request.
C20_GateBypassed ==
  (~requireAccess /\ gate.pc # "closed") =>
    /\ gate.pc = "ready"
    /\ \A stored \in {Null, "", "BOGUS", ls} :
         /\ hasAccess(requireAccess, stored)
         /\ View(requireAccess, gate, stored) = "content"
    /\ gate.slot = 0 /\ \A x \in XReqs : ex[x].pc = "idle"
    /\ gate.exRes = "none" /\ gate.savedRes = "none"
    /\ ~ENABLED GateExchangeDone /\ ~ENABLED GateVerifySaved

C20_Witness ==
  /\ ~requireAccess /\ gate.pc = "ready" /\ url \in MailedTokens
  /\ TokenKey(url) \in DOMAIN kv
  /\ View(requireAccess, gate, ls) = "content"

\* C21: a handled checkout.session.completed event with inline purchaser
\* address a whose store writes and notification all succeeded has left a
\* license record under license:a with active = true, has created exactly
\* one token entry, and has sent exactly one notification with that
\* token, addressed to a.
C21_PurchaseIssuesLicenseAndToken ==
  /\ \A r \in WReqs :
       (wh[r].pc = "done" /\ wh[r].ev.type = EvCheckout
          /\ wh[r].wroteLic /\ wh[r].wroteTok /\ wh[r].mailed) =>
         /\ wh[r].email = wh[r].ev.inline
         /\ LicenseKey(wh[r].email) \in DOMAIN kv
         /\ kv[LicenseKey(wh[r].email)].json.active = TRUE
         /\ kv[LicenseKey(wh[r].email)].json.email = wh[r].email
         /\ TokenKey(wh[r].token) \in DOMAIN kv \cup expired
         /\ Cardinality({m \in outbox : m.token = wh[r].token}) = 1
         /\ \A m \in outbox : m.token = wh[r].token => m.to = wh[r].email
  /\ Cardinality(TokenKeys(kv) \cup {k \in expired : k[1] = "token"})
       = Cardinality({r \in WReqs : wh[r].wroteTok})
  /\ Cardinality(outbox) = Cardinality({r \in WReqs : wh[r].mailed})

C21_Witness ==
  /\ wh[1].pc = "done" /\ wh[1].ev.type = EvCheckout /\ wh[1].ev.inline = "a@example.com"
  /\ wh[1].wroteLic /\ wh[1].wroteTok /\ wh[1].mailed
  /\ wh[2].pc = "idle"
  /\ DOMAIN kv = {LicenseKey("a@example.com"), TokenKey(wh[1].token)}
  /\ Cardinality(outbox) = 1

\* C22: in the session-based flow, once the event of checkout session s
\* has been handled, the pair left under session:s stays there until it
\* is claimed or runs out; a claim answered ok:true carries a token and a
\* license such that the token, while stored, names that license, every
\* exchange of that token answered ok:true returns that license, and
\* /api/verify accepts that license.
C22_SessionFlowCompletes ==
  /\ \A r \in WReqs :
       (wh[r].pc = "done" /\ wh[r].wroteSes) =>
         LET k == SessionKey(SessionOf(wh[r].ev))
         IN  /\ wh[r].status = 200
             /\ (k \in DOMAIN kv /\ kv[k].json.token = wh[r].token
                    /\ kv[k].json.license = wh[r].license)
                \/ k \in expired
                \/ SessionOf(wh[r].ev) \in cl.claimed
                \/ (\E y \in WReqs : y # r /\ wh[y].ev = wh[r].ev /\ wh[y].wroteSes)
  /\ (cl.pc = "done" /\ cl.ok) =>
       /\ cl.status = 200 /\ cl.token # Null /\ cl.license # Null
       /\ VerifyAnswer(kv, "POST", cl.license, TRUE).ok
       /\ TokenKey(cl.token) \in DOMAIN kv => kv[TokenKey(cl.token)].json.license = cl.license
       /\ TokenKey(cl.token) \in DOMAIN kv
            \/ TokenKey(cl.token) \in expired \/ Redeemed(cl.token)
       /\ \A x \in XReqs :
            (ex[x].pc = "done" /\ ex[x].ok /\ ex[x].token = cl.token) =>
              /\ ex[x].license = cl.license
              /\ VerifyAnswer(kv, "POST", ex[x].license, TRUE).ok

C22_Witness ==
  /\ wh[1].pc = "done" /\ wh[1].wroteSes /\ wh[1].ev.type = EvCheckout
  /\ cl.pc = "done" /\ cl.ok /\ cl.session = SessionOf(wh[1].ev)
  /\ cl.token = wh[1].token /\ cl.license = wh[1].license
  /\ ex[1].pc = "done" /\ ex[1].ok /\ ex[1].token = cl.token /\ ex[1].license = cl.license
  /\ VerifyAnswer(kv, "POST", ex[1].license, TRUE).ok

\* C23: the purchaser address comes from the first of three places that
\* has one: the inline detail, the alternate inline field, the customer
\* record at the provider.  With every customer record holding an email,
\* a recognized event resolves to no address only when it has neither
\* inline address nor customer reference.
C23_FallbackChainTotal ==
  \A r \in WReqs :
    (Verified(r) /\ IsRecognized(wh[r].ev.type)) =>
      wh[r].email = IF wh[r].ev.inline # Null THEN wh[r].ev.inline
                    ELSE IF wh[r].ev.alt # Null THEN wh[r].ev.alt
                    ELSE IF wh[r].ev.customer # Null
                      THEN (CHOOSE l \in CustomerRecords : TRUE).email
                    ELSE Null

\* lower-casing, over the addresses of the model
Lower(addr) == IF addr = "A@example.com" THEN "a@example.com" ELSE addr

\* C24: license records are filed under the lower-cased purchaser
\* address, so purchases whose addresses differ only in letter case share
\* one license record.
C24_KeyedByLowerCasedEmail ==
  \A j, k \in LicenseKeys(kv) :
    /\ j[2] = Lower(j[2])
    /\ Lower(j[2]) = Lower(k[2]) => j = k

\* C25: every step that changes the local credential is either the
\* arrival of an exchange answer with ok:true and a license, which becomes
\* the credential, or the submit of a key that /api/verify accepts, which
\* becomes the credential; and the credential is never empty.
C25_CredentialOnlyAfterOk ==
  [][ls' # ls =>
       \/ /\ gate.pc = "awaitExchange" /\ ex[gate.slot].pc = "done"
          /\ ex[gate.slot].ok /\ ex[gate.slot].license # Null
          /\ ls' = ex[gate.slot].license /\ gate'.exRes = "ok"
       \/ /\ View(requireAccess, gate, ls) = "locked"
          /\ ls' = gate'.accepted /\ ls' # Null /\ ls' # ""
          /\ VerifyAnswer(kv, "POST", ls', TRUE).ok]_vars

C25_Witness ==
  /\ gate.accepted # Null /\ ls = gate.accepted /\ gate.pc = "ready"
  /\ ls \in {m.to : m \in outbox}
  /\ \E x \in XReqs : ex[x].pc = "done" /\ ~ex[x].ok /\ ex[x].token \in MailedTokens

\* C26: the handler writes the license record, then the token, then
\* sends the notification: a token is written only after the license
\* record was written, and a notification is sent only after the token
\* write was attempted.
C26_StepsInOrder ==
  \A r \in WReqs :
    /\ wh[r].wroteTok => wh[r].wroteLic
    /\ wh[r].triedTok => wh[r].pc \in {"sendMail", "done"}
    /\ wh[r].mailed => wh[r].triedTok

\* C27: a notification is sent only for an event whose license record
\* and token entry were both written to the store.
C27_MailOnlyAfterBothWrites ==
  \A r \in WReqs : wh[r].mailed => (wh[r].wroteLic /\ wh[r].wroteTok)

\* C28: with the gate enabled a page load never stays on the loading line
\* for good: while it shows it, the effect still has a step to take (the
\* exchange answer to receive, the stored credential to verify) or the
\* exchange request it waits for is still being handled.
C28_LoadingAlwaysEnds ==
  (requireAccess /\ View(requireAccess, gate, ls) = "loading") =>
    \/ ENABLED GateExchangeDone
    \/ ENABLED GateVerifySaved
    \/ /\ gate.pc = "awaitExchange"
       /\ ex[gate.slot].pc \in {"get", "del"}

\* C29: a step of an exchange request or of a verify request leaves the
\* store as it was, except the step in which an exchange answers ok:true,
\* which removes the entry of the redeemed token and nothing else.
C29_EndpointsFrame ==
  [][(ex' # ex \/ vr' # vr) =>
       \/ kv' = kv
       \/ \E x \in XReqs :
            /\ ex[x].pc = "del" /\ ex'[x].pc = "done"
            /\ ex'[x].ok /\ ex'[x].status = 200
            /\ DOMAIN kv' = DOMAIN kv \ {TokenKey(ex[x].token)}
            /\ \A k \in DOMAIN kv' : kv'[k] = kv[k]]_vars

C29_Witness ==
  /\ \E x \in XReqs :
       /\ ex[x].pc = "done" /\ ex[x].ok
       /\ TokenKey(ex[x].token) \notin DOMAIN kv
  /\ \E x \in XReqs : ex[x].pc = "done" /\ ex[x].status = 200 /\ ~ex[x].ok
  /\ LicenseKeys(kv) # {}
  /\ vr.pc = "done" /\ vr.ok

\* C30: every license record and every token entry in the store was
\* written by a webhook request that was a POST with a verified
\* signature, carried a checkout.session.completed or invoice.paid event
\* and had a purchaser address resolved; requests to the exchange and
\* verify endpoints add nothing.
C30_EntriesFromVerifiedPurchases ==
  \A k \in DOMAIN kv :
    \E r \in WReqs :
      /\ Verified(r) /\ IsRecognized(wh[r].ev.type) /\ wh[r].email # Null
      /\ \/ /\ k = LicenseKey(wh[r].email) /\ wh[r].wroteLic
            /\ kv[k].json.evt = wh[r].ev.id /\ kv[k].json.email = wh[r].email
         \/ /\ k = TokenKey(wh[r].token) /\ wh[r].wroteTok
            /\ kv[k].json.license = wh[r].license

C30_Witness ==
  /\ LicenseKeys(kv) # {} /\ TokenKeys(kv) # {}
  /\ vr.pc = "done" /\ vr.method = "POST" /\ ~vr.ok /\ vr.key = "BOGUS"
  /\ \E x \in XReqs : ex[x].pc = "done" /\ ex[x].token = "BOGUS" /\ ex[x].status = 200

\* C31: with the gate enabled the protected content is rendered only when
\* loading has finished and local storage holds a non-empty credential;
\* while loading, and for an empty or missing credential, the render is
\* never the content.
C31_ContentNeedsCredential ==
  requireAccess =>
    /\ View(requireAccess, gate, ls) = "content" =>
         (~gate.loading /\ gate.pc = "ready" /\ ls # Null /\ ls # "")
    /\ \A stored \in {Null, ""} : View(requireAccess, gate, stored) # "content"
    /\ gate.loading =>
         \A stored \in {Null, "", "BOGUS", ls} : View(requireAccess, gate, stored) # "content"

C31_Witness ==
  /\ requireAccess /\ View(requireAccess, gate, ls) = "content"
  /\ gate.accepted # Null /\ ls = gate.accepted /\ ~gate.loading
  /\ gate.savedRes = "refused"

====
